---- MODULE Spec2Model ----
(***************************************************************************)
(* Model of the DPD transition detector of the loan dashboard              *)
(* (src/dashboard_app.py, find_dpd_pattern_customers) and of the page run  *)
(* that calls it.  A table (pandas DataFrame) is a sequence of records; a  *)
(* missing value (NaN / NaT / None) of a non-negative column is NULL.      *)
(***************************************************************************)
EXTENDS Integers, Sequences, FiniteSets, TLC

VARIABLES
    df,                 \* the table handed to find_dpd_pattern_customers
    pc,                 \* "input" before the call, "done" after return, "raised" after an exception
    summary_df,         \* returned pattern_summary (sequence of summary rows)
    df_sorted,          \* returned df_with_changes (annotated, sorted table)
    target_customers,   \* returned pattern_customers (list of loan ids)
    id_dtype,           \* dtype of the DisbursementID column as read from the file
    search_button,      \* st.button("Show Timeline") of the run
    selected_customer,  \* st.selectbox value: '' or str(cust)
    search_input,       \* st.text_input value
    customer_to_show,   \* the customer whose timeline is asked for, or None
    timeline_display,   \* the rows of df_with_changes shown as the timeline
    shown,              \* the elements the run has put on the page
    collection_rate,    \* dashboard page: overall collection rate
    ptp_success_rate,   \* dashboard page: share of fulfilled promises
    collection_rate_ptp,\* dashboard page: collection % of the PTP date range
    active_percentage,  \* dashboard page: share of active loans
    branch_performance, \* dashboard page: per-branch sums and collection rate
    total_ptp_customers,          \* PTP date range: loans with a promise
    customers_with_collection,    \* PTP date range: loans that gave collection
    customers_without_collection, \* PTP date range: loans that did not
    collections_without_ptp,      \* the records of "Collections Without PTP"
    loaded_df,          \* the table load_data() returns (df of the script)
    date_range,         \* sidebar date_input: (start,) or (start, end)
    selected_branch,    \* sidebar selectbox: 'All Branches' or a branch
    selected_ptp_status,\* sidebar selectbox: 'All Status' or a status
    loan_status,        \* sidebar radio: 'All', 'Active Only', 'Inactive Only'
    runs,               \* the reruns of the script so far
    cache               \* st.cache_data of find_dpd_pattern_customers

detector_vars == <<df, pc, summary_df, df_sorted, target_customers>>

lookup_vars == <<search_button, selected_customer, search_input, customer_to_show,
                 timeline_display>>

kpi_vars == <<collection_rate, ptp_success_rate, collection_rate_ptp,
              active_percentage, branch_performance, total_ptp_customers,
              customers_with_collection, customers_without_collection,
              collections_without_ptp>>

filter_vars == <<date_range, selected_branch, selected_ptp_status, loan_status>>

run_vars == <<loaded_df, filter_vars, runs>>

vars == <<detector_vars, id_dtype, lookup_vars, shown, kpi_vars, run_vars, cache>>

----------------------------------------------------------------------------
(* Bounds of the checked input tables *)

MaxRecords == 3
MaxLoans == 2
MaxDate == 3
MaxDPD == 1
MaxAmount == 1
OneLoanRecords == 4
OneLoanMaxDPD == 2
CycleRecords == 5
NullRecords == 4
DashRecords == 2
FilterRecords == 4
MaxRuns == 1

----------------------------------------------------------------------------
(* Values *)

NULL == -1
NoStatus == "NaN"
NoPTP == "No PTP"
NaNChange == [na |-> TRUE, val |-> 0]
None == [kind |-> "None"]

Num(v) == [na |-> FALSE, val |-> v]

Row(i, d, p, s, c, a) ==
    [DisbursementID |-> i, Date |-> d, NumberOfDaysPastDue |-> p,
     PTPStatus |-> s, CollectionAmount |-> c, PTPAmount |-> a,
     CustomerName |-> "N", Branch |-> "B"]

----------------------------------------------------------------------------
(* df.sort_values(['DisbursementID', 'Date']).reset_index(drop=True):      *)
(* a stable lexicographic sort, missing keys last in each column.          *)

NaLastLess(a, b) == IF a = NULL THEN FALSE ELSE IF b = NULL THEN TRUE ELSE a < b

(* the sort without its second key: sort_values(['DisbursementID']) *)
KeyLessIdOnly(r, s) == NaLastLess(r.DisbursementID, s.DisbursementID)

KeyLess(r, s) ==
    \/ NaLastLess(r.DisbursementID, s.DisbursementID)
    \/ /\ r.DisbursementID = s.DisbursementID
       /\ NaLastLess(r.Date, s.Date)

RECURSIVE InsertRow(_, _)
InsertRow(t, r) ==
    IF t = <<>> THEN <<r>>
    ELSE IF KeyLess(r, Head(t)) THEN <<r>> \o t
    ELSE <<Head(t)>> \o InsertRow(Tail(t), r)

RECURSIVE SortValues(_)
SortValues(t) ==
    IF t = <<>> THEN <<>>
    ELSE InsertRow(SortValues(SubSeq(t, 1, Len(t) - 1)), t[Len(t)])

----------------------------------------------------------------------------
(* df_sorted.groupby('DisbursementID')['NumberOfDaysPastDue'].shift(1):    *)
(* the value of the previous row of the same group in table order; rows    *)
(* whose group key is missing belong to no group.                          *)

PrevInGroup(t, i) ==
    {j \in 1..(i - 1) : t[j].DisbursementID = t[i].DisbursementID}

(* the shift without the groupby: df_sorted['NumberOfDaysPastDue'].shift(1) *)
PlainShift(t, i) == IF i = 1 THEN NULL ELSE t[i - 1].NumberOfDaysPastDue

GroupShift(t, i) ==
    IF t[i].DisbursementID = NULL \/ PrevInGroup(t, i) = {} THEN NULL
    ELSE LET j == CHOOSE k \in PrevInGroup(t, i) :
                      \A m \in PrevInGroup(t, i) : m <= k
         IN t[j].NumberOfDaysPastDue

(* the difference with the missing previous value filled: .fillna(0) *)
DPDChangeFillZero(dpd, prev) ==
    IF dpd = NULL THEN NaNChange ELSE Num(dpd - (IF prev = NULL THEN 0 ELSE prev))

(* df_sorted['NumberOfDaysPastDue'] - df_sorted['DPD_Previous'] *)
DPDChange(dpd, prev) ==
    IF dpd = NULL \/ prev = NULL THEN NaNChange ELSE Num(dpd - prev)

(* df_sorted['DPD_Change'] > 0, df_sorted['DPD_Change'] < 0 *)
IsIncrease(ch) == ~ch.na /\ ch.val > 0
IsDecrease(ch) == ~ch.na /\ ch.val < 0

AnnotateRow(t, i) ==
    LET prev == GroupShift(t, i)
        ch == DPDChange(t[i].NumberOfDaysPastDue, prev)
    IN [DisbursementID |-> t[i].DisbursementID, Date |-> t[i].Date,
        NumberOfDaysPastDue |-> t[i].NumberOfDaysPastDue,
        PTPStatus |-> t[i].PTPStatus,
        CollectionAmount |-> t[i].CollectionAmount,
        PTPAmount |-> t[i].PTPAmount,
        CustomerName |-> t[i].CustomerName, Branch |-> t[i].Branch,
        DPD_Previous |-> prev, DPD_Change |-> ch,
        DPD_Increased |-> IsIncrease(ch), DPD_Decreased |-> IsDecrease(ch)]

(* the annotation followed by a dropna(): the rows without a delta are lost *)
AnnotateDropNa(t) ==
    SelectSeq([i \in 1..Len(t) |-> AnnotateRow(t, i)],
              LAMBDA r : ~r.DPD_Change.na)

Annotate(t) == [i \in 1..Len(t) |-> AnnotateRow(t, i)]

----------------------------------------------------------------------------
(* Helpers on tables *)

(* t[mask]: boolean indexing keeps the rows whose mask entry is TRUE, in   *)
(* table order.                                                            *)
RECURSIVE MaskFrom(_, _, _)
MaskFrom(t, mask, i) ==
    IF i > Len(t) THEN <<>>
    ELSE (IF mask[i] THEN <<t[i]>> ELSE <<>>) \o MaskFrom(t, mask, i + 1)

Masked(t, mask) == MaskFrom(t, mask, 1)

InSeq(x, s) == \E i \in 1..Len(s) : s[i] = x

(* Series.unique(): the distinct values in order of first appearance *)
RECURSIVE UniqueAcc(_, _)
UniqueAcc(s, acc) ==
    IF s = <<>> THEN acc
    ELSE UniqueAcc(Tail(s), IF InSeq(Head(s), acc) THEN acc ELSE Append(acc, Head(s)))

(* the distinct values in order of last appearance, the last one first *)
UniqueLastFirst(s) == UniqueAcc([i \in 1..Len(s) |-> s[Len(s) + 1 - i]], <<>>)

Unique(s) == UniqueAcc(s, <<>>)

(* the sum that does not skip missing values: sum(skipna=False) is NaN *)
RECURSIVE SumWithNa(_)
SumWithNa(s) ==
    IF s = <<>> THEN 0
    ELSE LET rest == SumWithNa(Tail(s))
         IN IF Head(s) = NULL \/ rest = NULL THEN NULL ELSE Head(s) + rest

(* Series.sum(): missing values are skipped *)
RECURSIVE SumSkipNa(_)
SumSkipNa(s) ==
    IF s = <<>> THEN 0
    ELSE (IF Head(s) = NULL THEN 0 ELSE Head(s)) + SumSkipNa(Tail(s))

(* Series.max(): missing values are skipped; NULL when nothing is left *)
RECURSIVE MaxSkipNa(_)
MaxSkipNa(s) ==
    IF s = <<>> THEN NULL
    ELSE LET m == MaxSkipNa(Tail(s))
         IN IF Head(s) = NULL THEN m
            ELSE IF m = NULL \/ Head(s) > m THEN Head(s) ELSE m

CountTrue(s) == Cardinality({i \in 1..Len(s) : s[i]})

Column(t, c) == [i \in 1..Len(t) |-> t[i][c]]

----------------------------------------------------------------------------
(* find_dpd_pattern_customers *)

(* the promise test without the 'No PTP' comparison *)
HasPTPNotNaOnly(r) == r.PTPStatus # NoStatus

(* PTP Status notna() and != 'No PTP' *)
HasPTP(r) == r.PTPStatus # NoStatus /\ r.PTPStatus # NoPTP

(* customers_with_ptp: the ids of the rows with a promise, unique() *)
CustomersWithPTP(ds) ==
    Unique(Column(Masked(ds, [i \in 1..Len(ds) |-> HasPTP(ds[i])]), "DisbursementID"))

(* df_sorted[df_sorted['DisbursementID'] == customer_id]; a missing id     *)
(* equals nothing, itself included.                                        *)
CustomerData(ds, customer_id) ==
    Masked(ds, [i \in 1..Len(ds) |->
                  customer_id # NULL /\ ds[i].DisbursementID = customer_id])

(* the comparison that also takes a decrease of the same date *)
DateAfterOrSame(dec_date, inc_date) ==
    dec_date # NULL /\ inc_date # NULL /\ dec_date >= inc_date

(* dec_date > inc_date; a comparison with a missing date is False *)
DateAfter(dec_date, inc_date) ==
    dec_date # NULL /\ inc_date # NULL /\ dec_date > inc_date

(* the increase compared with the first decrease date only *)
SubsequentDecreasesFirstOnly(decrease_dates, inc_date) ==
    IF decrease_dates # <<>> /\ DateAfter(decrease_dates[1], inc_date)
    THEN <<decrease_dates[1]>> ELSE <<>>

SubsequentDecreases(decrease_dates, inc_date) ==
    Masked(decrease_dates,
           [i \in 1..Len(decrease_dates) |-> DateAfter(decrease_dates[i], inc_date)])

(* the scan without its break: one append per increase date that has a     *)
(* later decrease                                                          *)
RECURSIVE ScanIncreasesNoBreak(_, _)
ScanIncreasesNoBreak(increase_dates, decrease_dates) ==
    IF increase_dates = <<>> THEN <<>>
    ELSE (IF SubsequentDecreases(decrease_dates, Head(increase_dates)) # <<>>
          THEN <<Head(increase_dates)>> ELSE <<>>)
         \o ScanIncreasesNoBreak(Tail(increase_dates), decrease_dates)

(* for inc_date in increase_dates: if subsequent_decreases: append; break  *)
(* The result lists the increase dates at which the body appended: the     *)
(* break leaves at most the first one.                                     *)
RECURSIVE ScanIncreases(_, _)
ScanIncreases(increase_dates, decrease_dates) ==
    IF increase_dates = <<>> THEN <<>>
    ELSE IF SubsequentDecreases(decrease_dates, Head(increase_dates)) # <<>>
         THEN <<Head(increase_dates)>>
         ELSE ScanIncreases(Tail(increase_dates), decrease_dates)

IncreaseDates(customer_data) ==
    Column(Masked(customer_data, Column(customer_data, "DPD_Increased")), "Date")

DecreaseDates(customer_data) ==
    Column(Masked(customer_data, Column(customer_data, "DPD_Decreased")), "Date")

(* the guard with "or" and no scan: any loan whose DPD moved is appended *)
PatternAppendsAnyChange(customer_data) ==
    IF \E i \in 1..Len(customer_data) :
           customer_data[i].DPD_Increased \/ customer_data[i].DPD_Decreased
    THEN <<customer_data[1].Date>>
    ELSE <<>>

(* if has_dpd_increase and has_dpd_decrease: the scan of the increase      *)
(* dates; the dates at which the customer is appended.                     *)
PatternAppends(customer_data) ==
    IF /\ \E i \in 1..Len(customer_data) : customer_data[i].DPD_Increased
       /\ \E i \in 1..Len(customer_data) : customer_data[i].DPD_Decreased
    THEN ScanIncreases(IncreaseDates(customer_data), DecreaseDates(customer_data))
    ELSE <<>>

(* int(NaN) raises ValueError *)
SummaryRaises(customer_data) ==
    \/ MaxSkipNa(Column(customer_data, "NumberOfDaysPastDue")) = NULL
    \/ customer_data[Len(customer_data)].NumberOfDaysPastDue = NULL

MaxDPDOf(customer_data) == MaxSkipNa(Column(customer_data, "NumberOfDaysPastDue"))

(* iloc[0] in place of iloc[-1] *)
CurrentDPDFirst(customer_data) == customer_data[1].NumberOfDaysPastDue

CurrentDPDOf(customer_data) == customer_data[Len(customer_data)].NumberOfDaysPastDue

TotalCollectionOf(customer_data) == SumSkipNa(Column(customer_data, "CollectionAmount"))

TotalPTPAmountOf(customer_data) == SumSkipNa(Column(customer_data, "PTPAmount"))

(* the counts taken from the matched window only: the increase that broke  *)
(* the loop and the decreases after it                                     *)
SummaryRowMatchedWindow(customer_id, customer_data) ==
    LET matched == ScanIncreases(IncreaseDates(customer_data), DecreaseDates(customer_data))
    IN [DisbursementID |-> customer_id,
        Customer_Name |-> customer_data[1].CustomerName,
        Branch |-> customer_data[1].Branch,
        Total_Records |-> Len(customer_data),
        DPD_Increases |-> Len(matched),
        DPD_Decreases |-> Len(SubsequentDecreases(DecreaseDates(customer_data), matched[1])),
        Max_DPD |-> MaxDPDOf(customer_data),
        Current_DPD |-> CurrentDPDOf(customer_data),
        Total_Collection |-> TotalCollectionOf(customer_data),
        Total_PTP_Amount |-> TotalPTPAmountOf(customer_data)]

(* the dict appended to customer_summary_list *)
SummaryRow(customer_id, customer_data) ==
    [DisbursementID |-> customer_id,
     Customer_Name |-> customer_data[1].CustomerName,
     Branch |-> customer_data[1].Branch,
     Total_Records |-> Len(customer_data),
     DPD_Increases |-> CountTrue(Column(customer_data, "DPD_Increased")),
     DPD_Decreases |-> CountTrue(Column(customer_data, "DPD_Decreased")),
     Max_DPD |-> MaxDPDOf(customer_data),
     Current_DPD |-> CurrentDPDOf(customer_data),
     Total_Collection |-> TotalCollectionOf(customer_data),
     Total_PTP_Amount |-> TotalPTPAmountOf(customer_data)]

(* One pass of the body of "for customer_id in customers_with_ptp": one    *)
(* append to target_customers and customer_summary_list per entry of       *)
(* appends; building the summary dict raises when int() is given NaN.      *)
RECURSIVE AppendCustomer(_, _, _, _)
AppendCustomer(acc, customer_id, customer_data, appends) ==
    IF appends = <<>> \/ acc.raised THEN acc
    ELSE IF SummaryRaises(customer_data)
    THEN [acc EXCEPT !.raised = TRUE, !.targets = Append(@, customer_id)]
    ELSE AppendCustomer(
             [acc EXCEPT !.targets = Append(@, customer_id),
                         !.summaries = Append(@, SummaryRow(customer_id, customer_data))],
             customer_id, customer_data, Tail(appends))

(* for customer_id in customers_with_ptp: ...  The accumulator carries     *)
(* target_customers, customer_summary_list and whether a summary raised.   *)
RECURSIVE PatternLoop(_, _, _)
PatternLoop(ds, customers, acc) ==
    IF customers = <<>> \/ acc.raised THEN acc
    ELSE LET customer_id == Head(customers)
             customer_data == CustomerData(ds, customer_id)
         IN PatternLoop(ds, Tail(customers),
                AppendCustomer(acc, customer_id, customer_data,
                               PatternAppends(customer_data)))

DfSorted(t) == Annotate(SortValues(t))

FindDpdPatternCustomers(t) ==
    LET ds == DfSorted(t)
        out == PatternLoop(ds, CustomersWithPTP(ds),
                           [raised |-> FALSE, targets |-> <<>>, summaries |-> <<>>])
    IN [raised |-> out.raised, summary_df |-> out.summaries,
        df_sorted |-> ds, target_customers |-> out.targets]

----------------------------------------------------------------------------
(* Input tables *)

Statuses == {NoStatus, NoPTP, "Fulfilled"}

Rows(ids, dates, dpds, statuses, amounts) ==
    {Row(i, d, p, s, c, a) : i \in ids, d \in dates, p \in dpds,
                             s \in statuses, c \in amounts, a \in amounts}

TablesOf(rows, n) == UNION {[1..k -> rows] : k \in 0..n}

InsertAt(t, k, r) == SubSeq(t, 1, k) \o <<r>> \o SubSeq(t, k + 1, Len(t))

(* the timelines of loan id over the dates 1..n, one record per date *)
Timelines(id, n, dpds, statuses, amounts) ==
    {[k \in 1..n |-> Row(id, k, p[k], st[k], c[k], a[k])] :
        p \in [1..n -> dpds], st \in statuses,
        c \in [1..n -> amounts], a \in [1..n -> amounts]}

(* status columns of length n: the first record carries s, the others none *)
FirstRecordStatus(n, firsts) ==
    {[k \in 1..n |-> IF k = 1 THEN s ELSE NoStatus] : s \in firsts}

(* the rows of t taken in a rotated (a = 1) or reversed and rotated        *)
(* (a = Len(t) - 1) order                                                  *)
Reordered(t, a, b) ==
    [i \in 1..Len(t) |-> t[((a * (i - 1) + b) % Len(t)) + 1]]

Amounts == {NULL} \cup 0..MaxAmount

(* the rows of t in the order f *)
Permuted(t, f) == [i \in 1..Len(t) |-> t[f[i]]]

RowOrders(n) == {f \in [1..n -> 1..n] : \A i, j \in 1..n : f[i] = f[j] => i = j}

(* status columns of length n for the candidate test: no status at all, a  *)
(* first record with "No PTP" or with a promise, and "No PTP" followed by  *)
(* a promise                                                               *)
StatusColumns(n) ==
    FirstRecordStatus(n, Statuses)
        \cup {[k \in 1..n |-> IF k = 1 THEN NoPTP ELSE IF k = 2 THEN "Fulfilled" ELSE NoStatus]}

(* a timeline of n records whose DPD rises and falls in turn: 0, 1, 0, ... *)
ZigZag(id, n, first, c, a) ==
    [k \in 1..n |-> Row(id, k, (k + 1) % 2, IF k = 1 THEN first ELSE NoStatus, c[k], a[k])]

(* scenario A: loan L1 (id 1) with the records (day 1, DPD 0, no promise), *)
(* (day 5, DPD 10, "Pending"), (day 10, DPD 25, none), (day 20, DPD 5,     *)
(* none)                                                                   *)
ScenarioATimeline ==
    <<Row(1, 1, 0, NoPTP, 0, 0), Row(1, 5, 10, "Pending", 0, 0),
      Row(1, 10, 25, NoStatus, 0, 0), Row(1, 20, 5, NoStatus, 0, 0)>>

----------------------------------------------------------------------------
(* The call: pattern_summary, df_with_changes, pattern_customers =         *)
(* find_dpd_pattern_customers(filtered_df)                                 *)

(* a key that keeps the shape of the table only *)
CacheKeyShapeOnly(t) == Len(t)

(* st.cache_data keys an entry on the hash of the argument: the content of *)
(* the table                                                               *)
CacheKey(t) == t

CacheHit(c, t) == \E e \in c : e.key = CacheKey(t)

(* the memoised call: the stored value on a hit, the function's result     *)
(* otherwise                                                               *)
CachedCall(c, t) ==
    IF CacheHit(c, t) THEN (CHOOSE e \in c : e.key = CacheKey(t)).value
    ELSE FindDpdPatternCustomers(t)

(* a result is stored on a miss; an exception is not cached *)
CacheAfter(c, t, out) ==
    IF CacheHit(c, t) \/ out.raised THEN c
    ELSE c \cup {[key |-> CacheKey(t), value |-> out]}

Detect ==
    /\ pc = "input"
    /\ \E out \in {CachedCall(cache, df)} :
           /\ pc' = IF out.raised THEN "raised" ELSE "done"
           /\ summary_df' = IF out.raised THEN <<>> ELSE out.summary_df
           /\ df_sorted' = IF out.raised THEN <<>> ELSE out.df_sorted
           /\ target_customers' = IF out.raised THEN <<>> ELSE out.target_customers
           /\ cache' = CacheAfter(cache, df, out)
    /\ UNCHANGED <<df, id_dtype, lookup_vars, shown, kpi_vars, run_vars>>

Next == Detect

(* read_csv gives an integer id column, or a float one when an id is       *)
(* missing somewhere in the file (NaN has no integer form); a filter on    *)
(* rows keeps the dtype.                                                   *)
IdDtypes(t) ==
    IF \E i \in 1..Len(t) : t[i].DisbursementID = NULL
    THEN {"float64"} ELSE {"int64", "float64"}

(* the state of a run before anything is computed or put on the page *)
Blank ==
    /\ summary_df = <<>>
    /\ df_sorted = <<>>
    /\ target_customers = <<>>
    /\ search_button = FALSE
    /\ selected_customer = <<>>
    /\ search_input = <<>>
    /\ customer_to_show = None
    /\ timeline_display = <<>>
    /\ collection_rate = None
    /\ ptp_success_rate = None
    /\ collection_rate_ptp = None
    /\ active_percentage = None
    /\ total_ptp_customers = NULL
    /\ customers_with_collection = NULL
    /\ customers_without_collection = NULL
    /\ collections_without_ptp = <<>>
    /\ branch_performance = {}

(* the first run of a script whose sidebar filters are left as they are:  *)
(* nothing is filtered out of the loaded table                             *)
Unfiltered(t) ==
    /\ loaded_df = t
    /\ date_range = <<>>
    /\ selected_branch = "All Branches"
    /\ selected_ptp_status = "All Status"
    /\ loan_status = "All"
    /\ runs = 0
    /\ cache = {}

InitWith(t) ==
    /\ df = t
    /\ pc = "input"
    /\ Unfiltered(t)
    /\ id_dtype = IF "int64" \in IdDtypes(t) THEN "int64" ELSE "float64"
    /\ shown = {"title", "sidebar", "header"}
    /\ Blank

(* several loans, every status, dates that may repeat, any row order *)
Init ==
    \E t \in TablesOf(Rows(1..MaxLoans, 1..MaxDate, 0..MaxDPD, Statuses, {0}), MaxRecords) :
        InitWith(t)

Spec == Init /\ [][Next]_vars

(* a loan with one record per date in any input order, statuses of every  *)
(* kind, beside a single-record loan that carries a promise                *)
InitLoans ==
    \E x \in Timelines(1, MaxRecords, 0..MaxDPD, StatusColumns(MaxRecords), {0}) :
        \E p \in 0..MaxDPD :
            \E f \in RowOrders(MaxRecords + 1) :
                InitWith(Permuted(x \o <<Row(2, 1, p, "Fulfilled", 0, 0)>>, f))

SpecLoans == InitLoans /\ [][Next]_vars

(* one loan with a promise on every record, one record per date and a      *)
(* wider DPD range, its rows in any input order behind one record of a     *)
(* second loan                                                             *)
InitOneLoan ==
    \E x \in Timelines(1, OneLoanRecords, 0..OneLoanMaxDPD,
                       {[k \in 1..OneLoanRecords |-> "Pending"]}, {0}) :
        \E f \in RowOrders(OneLoanRecords) :
            InitWith(<<Row(2, OneLoanRecords, OneLoanMaxDPD, "Pending", 0, 0)>>
                         \o Permuted(x, f))

SpecOneLoan == InitOneLoan /\ [][Next]_vars

(* two loans, one timeline long enough for two increase/decrease cycles,   *)
(* the other rising and falling once, their records interleaved by a       *)
(* rotation or a reversal                                                  *)
InitCycles ==
    \E x \in Timelines(1, CycleRecords, 0..MaxDPD,
                       FirstRecordStatus(CycleRecords, {NoStatus, "Pending"}), {0}) :
        \E s \in {NoStatus, "Pending"} :
            \E a \in {1, CycleRecords + 2} :
                \E b \in 0..(CycleRecords + 2) :
                    InitWith(Reordered(x \o ZigZag(2, 3, s, <<0, 0, 0>>, <<0, 0, 0>>), a, b))

SpecCycles == InitCycles /\ [][Next]_vars

(* a qualifying loan with missing, zero and positive amounts, in date      *)
(* order or reversed, beside one record of a second loan that carries      *)
(* amounts of its own                                                      *)
InitAmounts ==
    \E c \in [1..MaxRecords -> Amounts] :
        \E a \in [1..MaxRecords -> Amounts] :
            \E o \in {1, MaxRecords} :
                InitWith(Reordered(ZigZag(1, MaxRecords, "Pending", c, a)
                                       \o <<Row(2, 1, MaxDPD, "Pending", MaxAmount, MaxAmount)>>,
                                   o, 0))

SpecAmounts == InitAmounts /\ [][Next]_vars

(* scenario A in any input order, alone or with one record of a second loan *)
InitScenarioA ==
    \E f \in RowOrders(4) :
        LET t == [i \in 1..4 |-> ScenarioATimeline[f[i]]]
        IN \/ InitWith(t)
           \/ \E k \in 0..4 :
                  \E p \in 0..MaxDPD :
                      InitWith(InsertAt(t, k, Row(2, 1, p, "Pending", 0, 0)))

SpecScenarioA == InitScenarioA /\ [][Next]_vars

(* a loan whose records may miss their date or their DPD, in date order   *)
(* or reversed, with one record that misses its loan id                    *)
InitNulls ==
    \E nodate \in [1..NullRecords -> BOOLEAN] :
        \E p \in [1..NullRecords -> {NULL} \cup 0..MaxDPD] :
            \E s \in {NoStatus, "Pending"} :
                \E o \in {1, NullRecords} :
                    InitWith(Reordered(
                        [k \in 1..NullRecords |->
                            Row(1, IF nodate[k] THEN NULL ELSE k, p[k],
                                IF k = 1 THEN s ELSE NoStatus, 0, 0)]
                          \o <<Row(NULL, 1, MaxDPD, "Pending", 0, 0)>>,
                        o, 0))

SpecNulls == InitNulls /\ [][Next]_vars

(* one loan whose records share two dates, in any order of DPD values,    *)
(* with or without a promise on its first record                           *)
InitSameDates ==
    \E d \in [1..OneLoanRecords -> 1..2] :
        \E p \in [1..OneLoanRecords -> 0..MaxDPD] :
            \E s \in {NoStatus, "Pending"} :
                InitWith([k \in 1..OneLoanRecords |->
                             Row(1, d[k], p[k], IF k = 1 THEN s ELSE NoStatus, 0, 0)])

SpecSameDates == InitSameDates /\ [][Next]_vars

----------------------------------------------------------------------------
(* The DPD Wise Transition Customer page.  A string is a sequence of       *)
(* one-character strings.                                                  *)

MaxInputLen == 4

Chars == {"0", "1", "."}

(* what the user can type into the text input, '' included *)
InputStrings == UNION {[1..k -> Chars] : k \in 0..MaxInputLen}

DecimalDigits == <<"0", "1", "2", "3", "4", "5", "6", "7", "8", "9">>

RECURSIVE Digits(_)
Digits(n) ==
    IF n < 10 THEN <<DecimalDigits[n + 1]>>
    ELSE Digits(n \div 10) \o <<DecimalDigits[(n % 10) + 1]>>

(* An id column that holds a non-numeric id is read as strings (dtype      *)
(* object) and keeps the text of the file, leading zeros included.  The    *)
(* ids 1, 2, 3 of such a column stand for these texts, in string order.    *)
ObjectIdText == << <<"0", "1", "1">>, <<"1", "1">>, <<"1", "X">> >>

(* str(cust) of an id of the column: '11' for int64, '11.0' for float64,   *)
(* the text itself for object, 'nan' for a missing id                      *)
Str(cust, dtype) ==
    IF cust = NULL THEN <<"n", "a", "n">>
    ELSE IF dtype = "object" THEN ObjectIdText[cust]
    ELSE IF dtype = "float64" THEN Digits(cust) \o <<".", "0">>
    ELSE Digits(cust)

(* s.replace('.0', ''): every occurrence, left to right, without looking   *)
(* at the result again                                                     *)
RECURSIVE ReplaceDotZero(_)
ReplaceDotZero(s) ==
    IF Len(s) < 2 THEN s
    ELSE IF s[1] = "." /\ s[2] = "0" THEN ReplaceDotZero(SubSeq(s, 3, Len(s)))
    ELSE <<s[1]>> \o ReplaceDotZero(Tail(s))

(* s.lstrip('0') *)
RECURSIVE LStripZero(_)
LStripZero(s) == IF s # <<>> /\ Head(s) = "0" THEN LStripZero(Tail(s)) ELSE s

(* search_clean = str(search_input).replace('.0', '').lstrip('0') *)
SearchClean(input) == LStripZero(ReplaceDotZero(input))

(* cust_clean = str(cust).replace('.0', '').lstrip('0') *)
CustClean(cust, dtype) == LStripZero(ReplaceDotZero(Str(cust, dtype)))

(* for cust in pattern_customers: the first customer whose clean form is   *)
(* the clean form of the input; st.error when there is none                *)
RECURSIVE ManualSearch(_, _, _)
ManualSearch(input, customers, dtype) ==
    IF customers = <<>> THEN [customer_to_show |-> None, not_found |-> TRUE]
    ELSE IF CustClean(Head(customers), dtype) = SearchClean(input)
    THEN [customer_to_show |-> [kind |-> "id", val |-> Head(customers)],
          not_found |-> FALSE]
    ELSE ManualSearch(input, Tail(customers), dtype)

(* "Determine which customer to show": the dropdown with the button first, *)
(* the typed id otherwise                                                  *)
LookupCustomer(button, selected, input, customers, dtype) ==
    IF button /\ selected # <<>>
    THEN [customer_to_show |-> [kind |-> "str", val |-> selected], not_found |-> FALSE]
    ELSE IF input # <<>> THEN ManualSearch(input, customers, dtype)
    ELSE [customer_to_show |-> None, not_found |-> FALSE]

(* "if customer_to_show:" None, '' and the number 0 are false *)
Truthy(c) ==
    CASE c.kind = "None" -> FALSE
      [] c.kind = "str" -> c.val # <<>>
      [] c.kind = "id" -> c.val # 0

(* str(customer_to_show) *)
StrOf(c, dtype) == IF c.kind = "str" THEN c.val ELSE Str(c.val, dtype)

(* the rows of df_with_changes selected for the timeline *)
TimelineRows(ds, c, dtype) ==
    LET customer_to_show_clean == ReplaceDotZero(StrOf(c, dtype))
    IN {i \in 1..Len(ds) :
           LET id == Str(ds[i].DisbursementID, dtype)
           IN \/ id = customer_to_show_clean
              \/ id = StrOf(c, dtype)
              \/ LStripZero(id) = LStripZero(customer_to_show_clean)}

(* customer_info_match: the rows of pattern_summary of the customer *)
CustomerInfoMatch(summary, c, dtype) ==
    LET customer_to_show_clean == ReplaceDotZero(StrOf(c, dtype))
    IN {k \in 1..Len(summary) :
           LET id == Str(summary[k].DisbursementID, dtype)
           IN \/ id = customer_to_show_clean
              \/ id = StrOf(c, dtype)
              \/ ReplaceDotZero(id) = customer_to_show_clean}

(* what the timeline section puts on the page; st.stop() after an error *)
TimelineSection(ds, summary, c, dtype) ==
    IF ~Truthy(c) THEN {}
    ELSE IF TimelineRows(ds, c, dtype) = {} THEN {"no_data_error"}
    ELSE IF CustomerInfoMatch(summary, c, dtype) = {} THEN {"no_info_error"}
    ELSE {"timeline"}

(* an error in place of the warning when nothing was found *)
NoCustomersError == {"no_customers_error"}

(* the else branch of "if len(pattern_summary) > 0": st.warning, st.info *)
NoCustomersSection == {"no_customers_warning", "no_customers_info"}

(* the page below the detector call *)
TransitionPage ==
    /\ pc = "done"
    /\ pc' = "rendered"
    /\ IF Len(summary_df) > 0
       THEN \E button \in BOOLEAN :
                \E selected \in {<<>>} \cup
                       {Str(target_customers[k], id_dtype) : k \in 1..Len(target_customers)} :
                    \E input \in InputStrings :
                        \E found \in {LookupCustomer(button, selected, input,
                                                     target_customers, id_dtype)} :
                            /\ search_button' = button
                            /\ selected_customer' = selected
                            /\ search_input' = input
                            /\ customer_to_show' = found.customer_to_show
                            /\ timeline_display' =
                                   IF Truthy(found.customer_to_show)
                                   THEN Masked(df_sorted, [i \in 1..Len(df_sorted) |->
                                            i \in TimelineRows(df_sorted,
                                                    found.customer_to_show, id_dtype)])
                                   ELSE <<>>
                            /\ shown' = shown
                                   \cup {"success_count", "summary_table", "search"}
                                   \cup (IF found.not_found THEN {"not_found_error"} ELSE {})
                                   \cup TimelineSection(df_sorted, summary_df,
                                                        found.customer_to_show, id_dtype)
       ELSE /\ shown' = shown \cup NoCustomersSection
            /\ UNCHANGED lookup_vars
    /\ UNCHANGED <<df, summary_df, df_sorted, target_customers, id_dtype, kpi_vars, run_vars, cache>>

(* df = load_data() and the sidebar, up to the page header *)
LoadData ==
    /\ pc = "start"
    /\ pc' = "input"
    /\ shown' = shown \cup {"sidebar", "header"}
    /\ UNCHANGED <<df, summary_df, df_sorted, target_customers, id_dtype,
                   lookup_vars, kpi_vars, run_vars, cache>>

(* load_data() raises: the file is missing (FileNotFoundError) or cannot   *)
(* be read (any other exception)                                           *)
LoadFails ==
    /\ pc = "start"
    /\ pc' = "load_failed"
    /\ \E e \in {"FileNotFoundError", "Exception"} :
           shown' = shown \cup
               (IF e = "FileNotFoundError"
                THEN {"file_not_found_error", "file_not_found_info"}
                ELSE {"exception_error", "exception_info"})
    /\ UNCHANGED <<df, summary_df, df_sorted, target_customers, id_dtype,
                   lookup_vars, kpi_vars, run_vars, cache>>

(* except Exception as e: an exception of the detector ends the run *)
ShowError ==
    /\ pc = "raised"
    /\ pc' = "failed"
    /\ shown' = shown \cup {"exception_error", "exception_info"}
    /\ UNCHANGED <<df, summary_df, df_sorted, target_customers, id_dtype,
                   lookup_vars, kpi_vars, run_vars, cache>>

(* the sidebar drawn before the file is read *)
PageTopWithSidebar == {"title", "sidebar"}

(* st.title and st.markdown above the try block *)
PageTop == {"title"}

NextPage == LoadData \/ LoadFails \/ Detect \/ TransitionPage \/ ShowError

(* the four records of a loan: DPD 0, 1, third, fourth *)
PageTimeline(id, first, third, fourth) ==
    <<Row(id, 1, 0, first, 0, 0), Row(id, 2, 1, NoStatus, 0, 0),
      Row(id, 3, third, NoStatus, 0, 0), Row(id, 4, fourth, NoStatus, 0, 0)>>

(* a run of the page on a file with the loans 11, 10 and 1 or some of      *)
(* them, with or without a record that has no loan id                      *)
InitPage ==
    \E ids \in SUBSET {1, 10, 11} :
        \E first \in {NoStatus, "Pending"} :
            \E third \in 0..1 :
                \E fourth \in {NULL, 0} :
                    \E noid \in BOOLEAN :
                        LET loan(id) == IF id \in ids
                                        THEN PageTimeline(id, first, third, fourth)
                                        ELSE <<>>
                            t == loan(11) \o loan(10) \o loan(1) \o
                                 (IF noid THEN <<Row(NULL, 1, 0, NoStatus, 0, 0)>> ELSE <<>>)
                        IN /\ df = t
                           /\ pc = "start"
                           /\ id_dtype \in IdDtypes(t)
                           /\ shown = PageTop
                           /\ Unfiltered(t)
                           /\ Blank

SpecPage == InitPage /\ [][NextPage]_vars

(* a run of the page on a file whose id column is read as strings, with    *)
(* the loans "011", "11" and "1X" or some of them                          *)
InitObjectIds ==
    \E ids \in SUBSET (1..Len(ObjectIdText)) :
        \E fourth \in {NULL, 0} :
            \E noid \in BOOLEAN :
                LET loan(id) == IF id \in ids
                                THEN PageTimeline(id, "Pending", 0, fourth)
                                ELSE <<>>
                    t == loan(3) \o loan(2) \o loan(1) \o
                         (IF noid THEN <<Row(NULL, 1, 0, NoStatus, 0, 0)>> ELSE <<>>)
                IN /\ df = t
                   /\ pc = "start"
                   /\ id_dtype = "object"
                   /\ shown = PageTop
                   /\ Unfiltered(t)
                   /\ Blank

SpecObjectIds == InitObjectIds /\ [][NextPage]_vars

----------------------------------------------------------------------------
(* The Dashboard page: the rates it computes from filtered_df.  A rate is  *)
(* a number num/den, or what a float division by zero gives in pandas.     *)

DashRow(id, branch, overdue, collection, ptp_amount, status, ptp_date, active) ==
    [DisbursementID |-> id, Branch |-> branch, OverdueAmount |-> overdue, CollectionAmount |-> collection,
     PTPAmount |-> ptp_amount, PTPStatus |-> status, PTPDate |-> ptp_date,
     IsActive |-> active]

Zero == [kind |-> "num", num |-> 0, den |-> 1]
Inf == [kind |-> "inf"]
NaN == [kind |-> "nan"]

(* n / d * 100 for d # 0 *)
Percent(n, d) == [kind |-> "num", num |-> n * 100, den |-> d]

(* round(2) of n / d * 100, half to even, as hundredths *)
Round2(n, d) ==
    LET q == (n * 10000) \div d
        r == (n * 10000) % d
    IN [kind |-> "num",
        num |-> IF 2 * r > d \/ (2 * r = d /\ q % 2 = 1) THEN q + 1 ELSE q,
        den |-> 100]

(* Series / Series * 100 of two sums: a zero denominator gives inf, or NaN *)
(* for 0 / 0, and no exception                                             *)
SeriesDivide(n, d) ==
    IF d = 0 THEN (IF n = 0 THEN NaN ELSE Inf) ELSE Round2(n, d)

(* line 452 *)
CollectionRate(t) ==
    LET total_collection_amount == SumSkipNa(Column(t, "CollectionAmount"))
        total_overdue_amount == SumSkipNa(Column(t, "OverdueAmount"))
    IN IF total_overdue_amount > 0
       THEN Percent(total_collection_amount, total_overdue_amount) ELSE Zero

(* filtered_df[filtered_df['PTP Status'].notna()] *)
PtpData(t) == Masked(t, [i \in 1..Len(t) |-> t[i].PTPStatus # NoStatus])

(* line 673, inside "if len(ptp_data) > 0"; None when the section is not   *)
(* drawn                                                                   *)
PtpSuccessRate(t) ==
    LET ptp_data == PtpData(t)
        ptp_fulfilled == Len(Masked(ptp_data,
                             [i \in 1..Len(ptp_data) |-> ptp_data[i].PTPStatus = "Fulfilled"]))
    IN IF Len(ptp_data) > 0
       THEN (IF Len(ptp_data) > 0 THEN Percent(ptp_fulfilled, Len(ptp_data)) ELSE Zero)
       ELSE None

(* lines 719-734: the promises of the date range, then of one status *)
PtpRangeDf(t, ptp_start_date, ptp_end_date) ==
    Masked(t, [i \in 1..Len(t) |->
                  /\ t[i].PTPDate # NULL
                  /\ t[i].PTPDate >= ptp_start_date
                  /\ t[i].PTPDate <= ptp_end_date
                  /\ t[i].PTPStatus # NoStatus
                  /\ t[i].PTPAmount # NULL])

PtpStatusFiltered(ptp_range_df, selected_ptp_filter) ==
    IF selected_ptp_filter = "All Status" THEN ptp_range_df
    ELSE Masked(ptp_range_df, [i \in 1..Len(ptp_range_df) |->
                                  ptp_range_df[i].PTPStatus = selected_ptp_filter])

(* line 763, inside "if len(ptp_dates) > 0" and "if len(ptp_range_df) > 0" *)
CollectionRatePtp(ptp_range_df, selected_ptp_filter) ==
    IF Len(ptp_range_df) = 0 THEN None
    ELSE LET chosen == PtpStatusFiltered(ptp_range_df, selected_ptp_filter)
             total_ptp_amount_range == SumSkipNa(Column(chosen, "PTPAmount"))
             total_collection_from_ptp == SumSkipNa(Column(chosen, "CollectionAmount"))
         IN IF total_ptp_amount_range > 0
            THEN Percent(total_collection_from_ptp, total_ptp_amount_range) ELSE Zero

(* Series.nunique(): the number of distinct values, NaN not counted *)
NUnique(s) == Cardinality({s[i] : i \in 1..Len(s)} \ {NULL})

(* line 736; NULL when the metrics are not drawn *)
TotalPtpCustomers(ptp_range_df, selected_ptp_filter) ==
    IF Len(ptp_range_df) = 0 THEN NULL
    ELSE NUnique(Column(PtpStatusFiltered(ptp_range_df, selected_ptp_filter),
                        "DisbursementID"))

(* line 742 *)
CustomersWithCollection(ptp_range_df, selected_ptp_filter) ==
    IF Len(ptp_range_df) = 0 THEN NULL
    ELSE LET chosen == PtpStatusFiltered(ptp_range_df, selected_ptp_filter)
         IN NUnique(Column(Masked(chosen, [i \in 1..Len(chosen) |->
                                              chosen[i].CollectionAmount > 0]),
                           "DisbursementID"))

(* line 746 *)
CustomersWithoutCollection(ptp_range_df, selected_ptp_filter) ==
    IF Len(ptp_range_df) = 0 THEN NULL
    ELSE LET chosen == PtpStatusFiltered(ptp_range_df, selected_ptp_filter)
         IN NUnique(Column(Masked(chosen, [i \in 1..Len(chosen) |->
                                              chosen[i].CollectionAmount = 0]),
                           "DisbursementID"))

(* filtered_df['PTP Date'].dropna(), line 694 *)
PtpDates(t) == Masked(t, [i \in 1..Len(t) |-> t[i].PTPDate # NULL])

(* lines 900-917, inside "if len(ptp_dates) > 0": the amount mask, then the *)
(* Collection Date range when the file has that column                      *)
CollectionsWithoutPtp(t, ptp_start_date, ptp_end_date) ==
    LET amount == Masked(t, [i \in 1..Len(t) |->
                                /\ t[i].CollectionAmount > 0
                                /\ t[i].PTPAmount = 0])
    IN IF Len(PtpDates(t)) = 0 THEN <<>>
       ELSE IF \A i \in 1..Len(amount) : "CollectionDate" \in DOMAIN amount[i]
            THEN Masked(amount, [i \in 1..Len(amount) |->
                                    /\ amount[i].CollectionDate # NULL
                                    /\ amount[i].CollectionDate >= ptp_start_date
                                    /\ amount[i].CollectionDate <= ptp_end_date])
            ELSE amount

(* line 1141 *)
ActivePercentage(t) ==
    LET active_count == Len(Masked(t, [i \in 1..Len(t) |-> t[i].IsActive]))
    IN IF Len(t) > 0 THEN Percent(active_count, Len(t)) ELSE Zero

(* lines 1009-1018: groupby('Branch') sums and the rate column *)
BranchPerformance(t) ==
    {LET rows == Masked(t, [i \in 1..Len(t) |-> t[i].Branch = b])
         collection == SumSkipNa(Column(rows, "CollectionAmount"))
         overdue == SumSkipNa(Column(rows, "OverdueAmount"))
     IN [Branch |-> b, CollectionAmount |-> collection, OverdueAmount |-> overdue,
         CollectionRate |-> SeriesDivide(collection, overdue)] :
        b \in {t[i].Branch : i \in 1..Len(t)}}

(* the Dashboard branch of the page routing *)
DashboardPage ==
    /\ pc = "input"
    /\ pc' = "dashboard"
    /\ collection_rate' = CollectionRate(df)
    /\ ptp_success_rate' = PtpSuccessRate(df)
    /\ \E ptp_start_date \in {1, DashRecords} :
           \E ptp_range_df \in {PtpRangeDf(df, ptp_start_date, DashRecords)} :
               \E selected_ptp_filter \in {"All Status"} \cup
                      {ptp_range_df[i].PTPStatus : i \in 1..Len(ptp_range_df)} :
                   /\ collection_rate_ptp' = CollectionRatePtp(ptp_range_df, selected_ptp_filter)
                   /\ total_ptp_customers' = TotalPtpCustomers(ptp_range_df, selected_ptp_filter)
                   /\ customers_with_collection' =
                          CustomersWithCollection(ptp_range_df, selected_ptp_filter)
                   /\ customers_without_collection' =
                          CustomersWithoutCollection(ptp_range_df, selected_ptp_filter)
                   /\ collections_without_ptp' =
                          CollectionsWithoutPtp(df, ptp_start_date, DashRecords)
                   /\ shown' = shown \cup {"kpis", "branch_table"}
                             \cup (IF Len(ptp_range_df) > 0 THEN {"ptp_range"} ELSE {})
                             \cup (IF Len(PtpDates(df)) > 0
                                   THEN {"collections_without_ptp"} ELSE {})
    /\ active_percentage' = ActivePercentage(df)
    /\ branch_performance' = BranchPerformance(df)
    /\ UNCHANGED <<df, summary_df, df_sorted, target_customers, id_dtype, lookup_vars, run_vars, cache>>

NextDashboard == DashboardPage

(* DashRecords records, one per day, the first of branch "A"; a promise    *)
(* carries the amount ptp_amount and its day as PTP date; or no record     *)
(* a file that also has the optional 'Collection Date' column *)
WithCollectionDate(row, dated, collection_date) ==
    IF dated
    THEN [c \in DOMAIN row \cup {"CollectionDate"} |->
             IF c = "CollectionDate" THEN collection_date ELSE row[c]]
    ELSE row

InitDashboard ==
    \/ InitWith(<<>>)
    \/ \E overdue \in [1..DashRecords -> 0..MaxAmount] :
           \E collection \in [1..DashRecords -> 0..MaxAmount] :
               \E status \in [1..DashRecords -> {NoStatus, "Fulfilled", "Broken"}] :
                   \E b \in {"A", "B"} :
                       \E ptp_amount \in 0..MaxAmount :
                           \E same_loan, dated \in BOOLEAN :
                               InitWith([k \in 1..DashRecords |->
                                   WithCollectionDate(
                                       DashRow(IF same_loan THEN 1 ELSE k,
                                               IF k = 1 THEN "A" ELSE b, overdue[k],
                                               collection[k],
                                               IF status[k] = NoStatus THEN NULL ELSE ptp_amount,
                                               status[k],
                                               IF status[k] = NoStatus THEN NULL ELSE k,
                                               k % 2 = 1),
                                       dated, k)])

SpecDashboard == InitDashboard /\ [][NextDashboard]_vars

----------------------------------------------------------------------------
(* The sidebar filters and the reruns of the script *)

FileRow(id, date, dpd, status, branch, active) ==
    [DisbursementID |-> id, Date |-> date, NumberOfDaysPastDue |-> dpd,
     PTPStatus |-> status, CollectionAmount |-> 0, PTPAmount |-> 0,
     CustomerName |-> "N", Branch |-> branch, IsActive |-> active]

(* df['Date'].min() and .max(): missing dates are skipped *)
KnownDates(t) == {t[i].Date : i \in 1..Len(t)} \ {NULL}

(* what st.date_input can return between min_date and max_date: a start    *)
(* alone, or a start and an end                                            *)
DateRanges(t) ==
    {<<a>> : a \in KnownDates(t)}
        \cup {r \in KnownDates(t) \X KnownDates(t) : r[1] <= r[2]}

(* ['All Branches'] + the branches of the file *)
BranchOptions(t) == {"All Branches"} \cup {t[i].Branch : i \in 1..Len(t)}

(* ['All Status'] + the statuses of the file, dropna() *)
PtpStatusOptions(t) ==
    {"All Status"} \cup ({t[i].PTPStatus : i \in 1..Len(t)} \ {NoStatus})

LoanStatusOptions == {"All", "Active Only", "Inactive Only"}

(* the date filter applied whatever the tuple holds: a start alone bounds  *)
(* the dates from below                                                    *)
ByDateAnyRange(t, range) ==
    IF range = <<>> THEN t
    ELSE Masked(t, [i \in 1..Len(t) |->
                      /\ t[i].Date # NULL
                      /\ t[i].Date >= range[1]
                      /\ (Len(range) = 2 => t[i].Date <= range[2])])

(* if len(date_range) == 2: start <= Date <= end; a missing date compares  *)
(* False                                                                   *)
ByDate(t, range) ==
    IF Len(range) = 2
    THEN Masked(t, [i \in 1..Len(t) |->
                       /\ t[i].Date # NULL
                       /\ t[i].Date >= range[1]
                       /\ t[i].Date <= range[2]])
    ELSE t

ByBranch(t, branch) ==
    IF branch # "All Branches"
    THEN Masked(t, [i \in 1..Len(t) |-> t[i].Branch = branch])
    ELSE t

(* the status filter that lets the records without a status through *)
ByPtpStatusOrMissing(t, status) ==
    IF status # "All Status"
    THEN Masked(t, [i \in 1..Len(t) |->
                       t[i].PTPStatus = NoStatus \/ t[i].PTPStatus = status])
    ELSE t

(* a missing status equals no selection *)
ByPtpStatus(t, status) ==
    IF status # "All Status"
    THEN Masked(t, [i \in 1..Len(t) |->
                       t[i].PTPStatus # NoStatus /\ t[i].PTPStatus = status])
    ELSE t

ByLoanStatus(t, choice) ==
    IF choice = "Active Only" THEN Masked(t, [i \in 1..Len(t) |-> t[i].IsActive])
    ELSE IF choice = "Inactive Only" THEN Masked(t, [i \in 1..Len(t) |-> ~t[i].IsActive])
    ELSE t

(* filtered_df: the four filters one after the other *)
FilteredDf(t, range, branch, status, choice) ==
    ByLoanStatus(ByPtpStatus(ByBranch(ByDate(t, range), branch), status), choice)

(* the script from load_data() to the call of the detector: the widgets    *)
(* return the user's selections and the filters are applied                *)
ApplyFilters ==
    /\ pc = "start"
    /\ pc' = "input"
    /\ \E range \in DateRanges(loaded_df) :
           \E branch \in BranchOptions(loaded_df) :
               \E status \in PtpStatusOptions(loaded_df) :
                   \E choice \in LoanStatusOptions :
                       /\ date_range' = range
                       /\ selected_branch' = branch
                       /\ selected_ptp_status' = status
                       /\ loan_status' = choice
                       /\ df' = FilteredDf(loaded_df, range, branch, status, choice)
    /\ shown' = shown \cup {"sidebar", "header"}
    /\ UNCHANGED <<summary_df, df_sorted, target_customers, id_dtype, lookup_vars,
                   kpi_vars, loaded_df, runs, cache>>

(* a widget is changed and the script runs again from the top: nothing of  *)
(* the last run is kept but the caches                                     *)
Rerun ==
    /\ pc \in {"done", "raised"}
    /\ runs < MaxRuns
    /\ runs' = runs + 1
    /\ pc' = "start"
    /\ shown' = PageTop
    /\ summary_df' = <<>>
    /\ df_sorted' = <<>>
    /\ target_customers' = <<>>
    /\ UNCHANGED <<df, id_dtype, lookup_vars, kpi_vars, loaded_df, filter_vars, cache>>

(* the state of a run at its start, before the file's table is filtered *)
InitRun(t) ==
    /\ df = t
    /\ pc = "start"
    /\ id_dtype = IF "int64" \in IdDtypes(t) THEN "int64" ELSE "float64"
    /\ shown = PageTop
    /\ Unfiltered(t)
    /\ Blank

NextFilters == ApplyFilters \/ Detect

(* one loan with a record per day, every status column, the branch and the *)
(* loan status changing along the timeline, beside a record of a second    *)
(* loan                                                                    *)
InitFilters ==
    \E status \in [1..FilterRecords -> {NoStatus, NoPTP, "Pending"}] :
        InitRun([k \in 1..FilterRecords |->
                    FileRow(1, k, (k + 1) % 2, status[k],
                            IF k % 2 = 1 THEN "A" ELSE "B", k <= 3)]
                  \o <<FileRow(2, 1, 0, "Pending", "B", FALSE)>>)

SpecFilters == InitFilters /\ [][NextFilters]_vars

NextRuns == ApplyFilters \/ Detect \/ Rerun

(* a file with a loan of branch "A" that rises and falls and a loan of     *)
(* branch "B" of as many records that may do so or not                     *)
InitRuns ==
    \E second \in 0..1 :
        InitRun(<<FileRow(1, 1, 0, "Pending", "A", TRUE),
                  FileRow(1, 2, 1, NoStatus, "A", TRUE),
                  FileRow(1, 3, 0, NoStatus, "A", TRUE),
                  FileRow(2, 1, 0, "Pending", "B", TRUE),
                  FileRow(2, 2, second, NoStatus, "B", TRUE),
                  FileRow(2, 3, second, NoStatus, "B", TRUE)>>)

SpecRuns == InitRuns /\ [][NextRuns]_vars

----------------------------------------------------------------------------
(* What the claims speak of, stated on the input table and on the result   *)

IsPromise(status) == status \notin {NoStatus, NoPTP}

LoanIds == {df[i].DisbursementID : i \in 1..Len(df)} \ {NULL}

RowsOfLoan(t, id) == {i \in 1..Len(t) : t[i].DisbursementID = id}

Reported(id) == \E k \in 1..Len(target_customers) : target_customers[k] = id

Summarised(id) == \E k \in 1..Len(summary_df) : summary_df[k].DisbursementID = id

Flagged(id, flag) == {i \in RowsOfLoan(df_sorted, id) : df_sorted[i][flag]}

Returned == pc = "done"

(* no two records of a loan share a date *)
DistinctDates ==
    \A i, j \in 1..Len(df) :
        (i # j /\ df[i].DisbursementID = df[j].DisbursementID) => df[i].Date # df[j].Date

(* The timeline of a loan read off the input table: record j comes before  *)
(* record i when its date is earlier or, the dates being equal, when it    *)
(* stands earlier in the input.                                            *)
Before(j, i) ==
    \/ df[j].Date < df[i].Date
    \/ df[j].Date = df[i].Date /\ j < i

Predecessors(i) == {j \in RowsOfLoan(df, df[i].DisbursementID) : Before(j, i)}

Previous(i) ==
    CHOOSE j \in Predecessors(i) : \A m \in Predecessors(i) : m = j \/ Before(m, j)

Rises(id) ==
    {i \in RowsOfLoan(df, id) :
        /\ Predecessors(i) # {}
        /\ df[i].NumberOfDaysPastDue > df[Previous(i)].NumberOfDaysPastDue}

Falls(id) ==
    {i \in RowsOfLoan(df, id) :
        /\ Predecessors(i) # {}
        /\ df[i].NumberOfDaysPastDue < df[Previous(i)].NumberOfDaysPastDue}

(* the sum of a column over the input rows idxs, a missing amount as zero *)
RECURSIVE AmountSum(_, _)
AmountSum(idxs, column) ==
    IF idxs = {} THEN 0
    ELSE LET i == CHOOSE x \in idxs : TRUE
         IN (IF df[i][column] = NULL THEN 0 ELSE df[i][column])
                + AmountSum(idxs \ {i}, column)

(* the input columns of an annotated row *)
InputColumns(r) ==
    [DisbursementID |-> r.DisbursementID, Date |-> r.Date,
     NumberOfDaysPastDue |-> r.NumberOfDaysPastDue, PTPStatus |-> r.PTPStatus,
     CollectionAmount |-> r.CollectionAmount, PTPAmount |-> r.PTPAmount,
     CustomerName |-> r.CustomerName, Branch |-> r.Branch]

----------------------------------------------------------------------------
ReportedLoanHasPromiseBeforeIncrease ==
    (Returned /\ DistinctDates) =>
        \A id \in LoanIds :
            Reported(id) =>
                \E i \in RowsOfLoan(df_sorted, id) :
                    \E j \in Flagged(id, "DPD_Increased") :
                        \E k \in Flagged(id, "DPD_Decreased") :
                            /\ IsPromise(df_sorted[i].PTPStatus)
                            /\ i <= j
                            /\ j < k

(* C6: in the annotated table no record is flagged both Increased and      *)
(* Decreased; the records of a loan appear in date order; the first record *)
(* of a loan has no previous value, no delta and neither flag; every other *)
(* record takes its previous value from the record of the same loan just   *)
(* before it, and its delta and flags from the difference to that value.   *)
DeltasWithinLoanOnly ==
    Returned =>
        \A i \in 1..Len(df_sorted) :
            LET r == df_sorted[i]
                earlier == {j \in RowsOfLoan(df_sorted, r.DisbursementID) : j < i}
            IN /\ ~(r.DPD_Increased /\ r.DPD_Decreased)
               /\ \A j \in earlier : df_sorted[j].Date <= r.Date
               /\ earlier = {} =>
                      /\ r.DPD_Previous = NULL
                      /\ r.DPD_Change.na
                      /\ ~r.DPD_Increased /\ ~r.DPD_Decreased
               /\ earlier # {} =>
                      \E j \in earlier :
                          /\ \A m \in earlier : m <= j
                          /\ r.DPD_Previous = df_sorted[j].NumberOfDaysPastDue
                          /\ r.DPD_Change = Num(r.NumberOfDaysPastDue - df_sorted[j].NumberOfDaysPastDue)
                          /\ r.DPD_Increased = (r.NumberOfDaysPastDue > df_sorted[j].NumberOfDaysPastDue)
                          /\ r.DPD_Decreased = (r.NumberOfDaysPastDue < df_sorted[j].NumberOfDaysPastDue)

(* the first record of a loan sits right after a record of another loan    *)
(* with another DPD, and some record of the table is flagged               *)
FirstRecordFollowsOtherLoan ==
    /\ Returned
    /\ \E i \in 2..Len(df_sorted) :
           /\ df_sorted[i].DisbursementID # df_sorted[i - 1].DisbursementID
           /\ df_sorted[i].NumberOfDaysPastDue # df_sorted[i - 1].NumberOfDaysPastDue
    /\ \E i \in 1..Len(df_sorted) : df_sorted[i].DPD_Increased \/ df_sorted[i].DPD_Decreased

(* C7: a loan with fewer than two records is in neither the qualifying     *)
(* list nor the summaries, promise or not, and its record carries no delta *)
(* and neither flag.                                                       *)
SingleRecordLoanNeverQualifies ==
    Returned =>
        \A id \in LoanIds :
            Cardinality(RowsOfLoan(df, id)) < 2 =>
                /\ ~Reported(id)
                /\ ~Summarised(id)
                /\ \A i \in RowsOfLoan(df_sorted, id) :
                       /\ df_sorted[i].DPD_Change.na
                       /\ ~df_sorted[i].DPD_Increased
                       /\ ~df_sorted[i].DPD_Decreased

(* a single-record loan with a promise and a positive DPD was analysed *)
SingleRecordPromiseLoan ==
    /\ Returned
    /\ \E id \in LoanIds :
           /\ Cardinality(RowsOfLoan(df, id)) = 1
           /\ \E i \in RowsOfLoan(df, id) :
                  IsPromise(df[i].PTPStatus) /\ df[i].NumberOfDaysPastDue > 0

(* C8: a loan without a record flagged Increased or without a record       *)
(* flagged Decreased is in neither the qualifying list nor the summaries,  *)
(* and the annotated table still holds each of its input records as often  *)
(* as the input does.                                                      *)
OneSidedLoanExcludedButAnnotated ==
    Returned =>
        \A id \in LoanIds :
            (Flagged(id, "DPD_Increased") = {} \/ Flagged(id, "DPD_Decreased") = {}) =>
                /\ ~Reported(id)
                /\ ~Summarised(id)
                /\ \A i \in RowsOfLoan(df, id) :
                       Cardinality({j \in 1..Len(df_sorted) : InputColumns(df_sorted[j]) = df[i]})
                           = Cardinality({j \in 1..Len(df) : df[j] = df[i]})

(* a loan with a "Fulfilled" promise whose DPD only rose was analysed *)
FulfilledLoanOnlyIncreasing ==
    /\ Returned
    /\ \E id \in LoanIds :
           /\ \E i \in RowsOfLoan(df, id) : df[i].PTPStatus = "Fulfilled"
           /\ Flagged(id, "DPD_Increased") # {}
           /\ Flagged(id, "DPD_Decreased") = {}
           /\ ~Reported(id)

(* C3: in every summary Total_Records is the number of input records of    *)
(* the loan and DPD_Increases / DPD_Decreases are the numbers of records   *)
(* of the loan whose DPD is above / below that of the record before it in  *)
(* the loan's whole timeline.                                              *)
CountsCoverWholeTimeline ==
    Returned =>
        \A k \in 1..Len(summary_df) :
            LET id == summary_df[k].DisbursementID
            IN /\ summary_df[k].Total_Records = Cardinality(RowsOfLoan(df, id))
               /\ summary_df[k].DPD_Increases = Cardinality(Rises(id))
               /\ summary_df[k].DPD_Decreases = Cardinality(Falls(id))

(* a summary counts an increase outside the matched increase/decrease      *)
(* window, in a table that also holds a record of another loan             *)
SummaryCountsOutsideWindow ==
    /\ Returned
    /\ \E k \in 1..Len(summary_df) :
           /\ summary_df[k].DPD_Increases >= 2
           /\ summary_df[k].Total_Records < Len(df)

(* C4: in every summary Total_Collection and Total_PTP_Amount are the sums *)
(* of CollectionAmount and PTPAmount over the input records of the loan,   *)
(* a missing amount counting as zero.                                      *)
TotalsSumLoanAmounts ==
    Returned =>
        \A k \in 1..Len(summary_df) :
            LET rows == RowsOfLoan(df, summary_df[k].DisbursementID)
            IN /\ summary_df[k].Total_Collection = AmountSum(rows, "CollectionAmount")
               /\ summary_df[k].Total_PTP_Amount = AmountSum(rows, "PTPAmount")

(* a summarised loan has a missing collection amount, a missing promise    *)
(* amount and positive totals                                              *)
SummaryWithMissingAmounts ==
    /\ Returned
    /\ \E k \in 1..Len(summary_df) :
           LET rows == RowsOfLoan(df, summary_df[k].DisbursementID)
           IN /\ \E i \in rows : df[i].CollectionAmount = NULL
              /\ \E i \in rows : df[i].PTPAmount = NULL
              /\ summary_df[k].Total_Collection > 0
              /\ summary_df[k].Total_PTP_Amount > 0

(* C5: in every summary Max_DPD is the largest DaysPastDue of the loan's   *)
(* input records and Current_DPD is the DaysPastDue of a record of the     *)
(* loan with the latest date, whatever the order of the input rows.        *)
MaxAndCurrentDPD ==
    Returned =>
        \A k \in 1..Len(summary_df) :
            LET rows == RowsOfLoan(df, summary_df[k].DisbursementID)
            IN /\ \E i \in rows : df[i].NumberOfDaysPastDue = summary_df[k].Max_DPD
               /\ \A i \in rows : df[i].NumberOfDaysPastDue <= summary_df[k].Max_DPD
               /\ \E i \in rows :
                      /\ df[i].NumberOfDaysPastDue = summary_df[k].Current_DPD
                      /\ \A j \in rows : df[j].Date <= df[i].Date

(* a summarised loan whose last input row is neither its latest record nor *)
(* at the current DPD, and whose current DPD is below its maximum          *)
SummaryOfUnorderedInput ==
    /\ Returned
    /\ \E k \in 1..Len(summary_df) :
           LET rows == RowsOfLoan(df, summary_df[k].DisbursementID)
           IN /\ summary_df[k].Current_DPD < summary_df[k].Max_DPD
              /\ \E i \in rows :
                     /\ \A j \in rows : j <= i
                     /\ \E j \in rows : df[j].Date > df[i].Date
                     /\ df[i].NumberOfDaysPastDue # summary_df[k].Current_DPD

(* increase r1, decrease f1, increase r2, decrease f2 of loan id at        *)
(* strictly ascending dates, and no other increase or decrease             *)
TwoCycles(id) ==
    /\ Cardinality(Rises(id)) = 2
    /\ Cardinality(Falls(id)) = 2
    /\ \E r1, r2 \in Rises(id) :
           \E f1, f2 \in Falls(id) :
               /\ df[r1].Date < df[f1].Date
               /\ df[f1].Date < df[r2].Date
               /\ df[r2].Date < df[f2].Date

(* C9: no loan id occurs twice in the qualifying list or in the summaries, *)
(* the summaries carry the ids of the qualifying list in the same order,   *)
(* and a loan with a promise and two increase/decrease cycles has exactly  *)
(* one summary, with 2 increases and 2 decreases.                          *)
NoLoanCountedTwice ==
    Returned =>
        /\ \A i, j \in 1..Len(target_customers) :
               target_customers[i] = target_customers[j] => i = j
        /\ Len(summary_df) = Len(target_customers)
        /\ \A k \in 1..Len(summary_df) :
               summary_df[k].DisbursementID = target_customers[k]
        /\ \A id \in LoanIds :
               (TwoCycles(id) /\ \E i \in RowsOfLoan(df, id) : IsPromise(df[i].PTPStatus)) =>
                   /\ Cardinality({k \in 1..Len(summary_df) :
                                       summary_df[k].DisbursementID = id}) = 1
                   /\ \A k \in 1..Len(summary_df) :
                          summary_df[k].DisbursementID = id =>
                              /\ summary_df[k].DPD_Increases = 2
                              /\ summary_df[k].DPD_Decreases = 2

(* two loans were reported, one of them with two cycles *)
TwoLoansReportedOneWithTwoCycles ==
    /\ Returned
    /\ Len(target_customers) = 2
    /\ \E id \in LoanIds : TwoCycles(id) /\ Reported(id)

(* C10 as stated: for scenario A the detector reports L1 with              *)
(* DPD_Increases = 1, DPD_Decreases = 1, Max_DPD = 25 and Current_DPD = 5. *)
ScenarioAOneIncrease ==
    Returned =>
        /\ Reported(1)
        /\ \E k \in 1..Len(summary_df) :
               /\ summary_df[k].DisbursementID = 1
               /\ summary_df[k].DPD_Increases = 1
               /\ summary_df[k].DPD_Decreases = 1
               /\ summary_df[k].Max_DPD = 25
               /\ summary_df[k].Current_DPD = 5

(* C10 as amended: for scenario A the detector reports L1 with             *)
(* DPD_Increases = 2 (day 1 -> 5 and day 5 -> 10), DPD_Decreases = 1,      *)
(* Max_DPD = 25 and Current_DPD = 5, in one summary.                       *)
ScenarioATwoIncreases ==
    Returned =>
        /\ Reported(1)
        /\ Cardinality({k \in 1..Len(summary_df) : summary_df[k].DisbursementID = 1}) = 1
        /\ \A k \in 1..Len(summary_df) :
               summary_df[k].DisbursementID = 1 =>
                   /\ summary_df[k].Total_Records = 4
                   /\ summary_df[k].DPD_Increases = 2
                   /\ summary_df[k].DPD_Decreases = 1
                   /\ summary_df[k].Max_DPD = 25
                   /\ summary_df[k].Current_DPD = 5

(* scenario A was analysed from an input that starts with its last record  *)
(* and holds a record of another loan                                      *)
ScenarioAReported ==
    /\ Returned
    /\ Reported(1)
    /\ df[1].Date = 20
    /\ Len(df) = 5

(* the number of rows of table t whose input columns are those of row r *)
Occurrences(t, r) == Cardinality({j \in 1..Len(t) : InputColumns(t[j]) = r})

(* C11: a call that returns leaves the input table as it was, and the      *)
(* annotated table holds every input record, records without a loan id     *)
(* included, exactly as often as the input does and nothing else, with its *)
(* input columns unchanged.                                                *)
AnnotatedIsWholeInput ==
    [][pc' = "done" =>
          /\ df' = df
          /\ Len(df_sorted') = Len(df)
          /\ \A i \in 1..Len(df) :
                 Occurrences(df_sorted', df[i]) = Occurrences(df, df[i])]_vars

(* a returned table with a reported loan, a record without loan id and     *)
(* rows that were not in sorted order on input                             *)
ReturnedWithUnsortedInput ==
    /\ Returned
    /\ target_customers # <<>>
    /\ \E i \in 1..Len(df) : df[i].DisbursementID = NULL
    /\ df # [i \in 1..Len(df_sorted) |-> InputColumns(df_sorted[i])]

(* a record that can be sequenced: neither its date nor its DPD is missing *)
Sequenced(r) == r.Date # NULL /\ r.NumberOfDaysPastDue # NULL

(* C12: records that miss their date or their DPD take no part in the      *)
(* sequencing: a record that has both takes its previous value from the    *)
(* nearest earlier record of its loan that has both, and Total_Records     *)
(* counts only such records.                                               *)
MalformedRecordsExcluded ==
    Returned =>
        /\ \A i \in 1..Len(df_sorted) :
               LET earlier == {j \in RowsOfLoan(df_sorted, df_sorted[i].DisbursementID) :
                                  j < i /\ Sequenced(df_sorted[j])}
               IN (Sequenced(df_sorted[i]) /\ earlier # {}) =>
                      \E j \in earlier :
                          /\ \A m \in earlier : m <= j
                          /\ df_sorted[i].DPD_Previous = df_sorted[j].NumberOfDaysPastDue
        /\ \A k \in 1..Len(summary_df) :
               summary_df[k].Total_Records =
                   Cardinality({i \in RowsOfLoan(df, summary_df[k].DisbursementID) :
                                   Sequenced(df[i])})

(* C13: the detector never raises. *)
DetectorNeverRaises == pc # "raised"

(* the normal form of an identifier as the lookup is specified: one       *)
(* trailing ".0" stripped, then the leading zeros                          *)
NormalForm(s) ==
    LStripZero(IF Len(s) >= 2 /\ s[Len(s) - 1] = "." /\ s[Len(s)] = "0"
               THEN SubSeq(s, 1, Len(s) - 2) ELSE s)

(* the run looked the typed identifier up (the dropdown was not used) *)
ManualLookup ==
    /\ pc = "rendered"
    /\ Len(summary_df) > 0
    /\ search_input # <<>>
    /\ ~(search_button /\ selected_customer # <<>>)

(* the qualifying ids whose normal form is that of the typed identifier *)
SameNormalForm ==
    {k \in 1..Len(target_customers) :
        NormalForm(Str(target_customers[k], id_dtype)) = NormalForm(search_input)}

(* C14: the lookup compares normal forms (a trailing ".0" and the leading  *)
(* zeros stripped on both sides): a typed identifier resolves to a         *)
(* qualifying loan with the same normal form when there is one, and never  *)
(* to a loan whose normal form differs.                                    *)
LookupComparesNormalForms ==
    ManualLookup =>
        /\ customer_to_show # None =>
               NormalForm(Str(customer_to_show.val, id_dtype)) = NormalForm(search_input)
        /\ SameNormalForm # {} => customer_to_show # None

(* C15: a typed identifier that matches no qualifying id after             *)
(* normalisation gives the not-found message and no timeline, with the     *)
(* count and the summary table still on the page; a loan is returned if    *)
(* and only if some qualifying id has the normal form of the input.        *)
UnmatchedInputIsNotFound ==
    ManualLookup =>
        /\ SameNormalForm = {} =>
               /\ "not_found_error" \in shown
               /\ "timeline" \notin shown
               /\ {"success_count", "summary_table"} \subseteq shown
        /\ (customer_to_show # None) <=> (SameNormalForm # {})

(* the records of a loan that are known to rise or fall: both DPD values   *)
(* are present                                                             *)
KnownChange(i) ==
    /\ Predecessors(i) # {}
    /\ df[i].NumberOfDaysPastDue # NULL
    /\ df[Previous(i)].NumberOfDaysPastDue # NULL

(* the loan has a promise and a rise that is followed by a fall *)
Qualifies(id) ==
    /\ \E i \in RowsOfLoan(df, id) : IsPromise(df[i].PTPStatus)
    /\ \E i \in Rises(id) : \E j \in Falls(id) :
           KnownChange(i) /\ KnownChange(j) /\ df[j].Date > df[i].Date

(* the messages of the page that report an error *)
ErrorMessages ==
    {"not_found_error", "no_data_error", "no_info_error", "no_customers_error",
     "file_not_found_error", "exception_error"}

(* C16: when no loan of the input qualifies, the detector returns (it does *)
(* not raise) an empty summary, an empty id list and the annotated table   *)
(* with every input record, and the page shows the warning and the hint    *)
(* of "no customers found", no error, no count and no table.               *)
EmptyQualifyingSetIsNormal ==
    (pc \notin {"start", "input", "load_failed"} /\ \A id \in LoanIds : ~Qualifies(id)) =>
        /\ pc \in {"done", "rendered"}
        /\ summary_df = <<>>
        /\ target_customers = <<>>
        /\ Len(df_sorted) = Len(df)
        /\ \A i \in 1..Len(df) : Occurrences(df_sorted, df[i]) = Occurrences(df, df[i])
        /\ pc = "rendered" =>
               /\ {"no_customers_warning", "no_customers_info"} \subseteq shown
               /\ shown \cap ErrorMessages = {}
               /\ shown \cap {"success_count", "summary_table", "timeline"} = {}

(* the page of a file whose only loans have a promise and a rise but no    *)
(* later fall, next to a record without loan id                            *)
NoCustomersFound ==
    /\ pc = "rendered"
    /\ "no_customers_warning" \in shown
    /\ \E i \in 1..Len(df) : df[i].DisbursementID = NULL
    /\ \E id \in LoanIds :
           /\ \E i \in RowsOfLoan(df, id) : IsPromise(df[i].PTPStatus)
           /\ \E i \in Rises(id) : KnownChange(i)

(* C17: when the file cannot be read the run ends there: the page holds    *)
(* the title and the error with its hint and nothing else (no filters, no  *)
(* header, no analysis), and no further step of the run follows.           *)
MissingDatasetEndsInError ==
    /\ [](pc = "load_failed" =>
              /\ shown \cap {"file_not_found_error", "exception_error"} # {}
              /\ shown \subseteq {"title", "file_not_found_error", "file_not_found_info",
                                  "exception_error", "exception_info"})
    /\ [][pc # "load_failed"]_vars

(* the run of a page whose file is missing *)
FileNotFoundShown ==
    /\ pc = "load_failed"
    /\ {"file_not_found_error", "file_not_found_info"} \subseteq shown
    /\ df # <<>>

(* C18: every rate the dashboard computes is a number, and it is zero when *)
(* its denominator is zero: the overall collection rate, the PTP           *)
(* collection %, the PTP success rate, the active rate and the collection  *)
(* rate of every branch.                                                   *)
RatesAreZeroOnZeroDenominator ==
    pc = "dashboard" =>
        /\ \A rate \in {collection_rate, ptp_success_rate, collection_rate_ptp,
                        active_percentage} :
               rate # None => (rate.kind = "num" /\ rate.den > 0)
        /\ SumSkipNa(Column(df, "OverdueAmount")) = 0 => collection_rate = Zero
        /\ Len(df) = 0 => active_percentage = Zero
        /\ \A row \in branch_performance :
               /\ row.CollectionRate.kind = "num"
               /\ row.OverdueAmount = 0 => row.CollectionRate = Zero

(* t with its first two records exchanged *)
Exchanged(t) ==
    [i \in 1..Len(t) |-> IF i = 1 /\ Len(t) >= 2 THEN t[2]
                         ELSE IF i = 2 THEN t[1] ELSE t[i]]

(* the detector's result on the input in another record order *)
ResultOf(t) == FindDpdPatternCustomers(t)

SameResult(out) ==
    /\ ~out.raised
    /\ out.summary_df = summary_df
    /\ out.target_customers = target_customers
    /\ out.df_sorted = df_sorted

(* C20: when no loan has two records of the same date, the qualifying ids, *)
(* the summaries and the annotated records do not depend on the order of   *)
(* the input records: they are those of the input with its first two       *)
(* records exchanged and of the input rotated by one record (every         *)
(* reordering is a sequence of these two, and every reordering is an       *)
(* input).                                                                 *)
ResultIndependentOfRecordOrder ==
    (Returned /\ DistinctDates) =>
        /\ SameResult(ResultOf(Exchanged(df)))
        /\ SameResult(ResultOf(Reordered(df, 1, 1)))

(* a loan reported from an input that lists a later record of the loan     *)
(* before an earlier one                                                   *)
ReportedFromUnorderedRecords ==
    /\ Returned
    /\ DistinctDates
    /\ \E i, j \in 1..Len(df) :
           /\ i < j
           /\ df[i].DisbursementID = df[j].DisbursementID
           /\ df[i].Date > df[j].Date
           /\ Reported(df[i].DisbursementID)

SummariesAscendingByLoan ==
    Returned =>
        /\ Len(summary_df) = Len(target_customers)
        /\ \A k \in 1..Len(summary_df) :
               summary_df[k].DisbursementID = target_customers[k]
        /\ \A k, l \in 1..Len(target_customers) :
               k < l => target_customers[k] < target_customers[l]

(* two loans reported from an input whose first record is of the loan with *)
(* the larger id                                                           *)
TwoLoansReportedFromDescendingInput ==
    /\ Returned
    /\ Len(target_customers) = 2
    /\ df[1].DisbursementID = 2
    /\ \E i \in 1..Len(df) : df[i].DisbursementID = 1 /\ IsPromise(df[i].PTPStatus)

(* the record satisfies every filter that is active in this run *)
Passes(r) ==
    /\ Len(date_range) = 2 => (r.Date >= date_range[1] /\ r.Date <= date_range[2])
    /\ selected_branch # "All Branches" => r.Branch = selected_branch
    /\ selected_ptp_status # "All Status" => r.PTPStatus = selected_ptp_status
    /\ loan_status = "Active Only" => r.IsActive
    /\ loan_status = "Inactive Only" => ~r.IsActive

(* C23: the table the detector is called with is exactly the records of    *)
(* the loaded table that satisfy every active filter (the date range only  *)
(* when both ends are selected), in their order, and the detector filters  *)
(* nothing itself: its annotated table holds each of them.                 *)
DetectorGetsTheFilteredRecords ==
    pc \in {"input", "done", "raised"} =>
        /\ df = SelectSeq(loaded_df, LAMBDA r : Passes(r))
        /\ pc = "done" =>
               /\ Len(df_sorted) = Len(df)
               /\ \A i \in 1..Len(df) : \E j \in 1..Len(df_sorted) :
                      df_sorted[j].DisbursementID = df[i].DisbursementID
                          /\ df_sorted[j].Date = df[i].Date

(* a run with a start date alone, a branch, a status and a loan status     *)
(* selected that leaves some records and drops others                      *)
FiltersDropSomeRecords ==
    /\ pc = "done"
    /\ Len(date_range) = 1
    /\ date_range[1] > 1
    /\ selected_branch # "All Branches"
    /\ selected_ptp_status # "All Status"
    /\ loan_status # "All"
    /\ df # <<>>
    /\ Len(df) < Len(loaded_df)

(* the records of the loaded table of loan id that pass the filters and    *)
(* are dated before date d                                                 *)
PassingBefore(id, d) ==
    {i \in 1..Len(loaded_df) :
        /\ loaded_df[i].DisbursementID = id
        /\ Passes(loaded_df[i])
        /\ loaded_df[i].Date < d}

(* C29: with the status filter on "No PTP" nothing qualifies; with it on   *)
(* another status every remaining loan is a candidate (it is reported as   *)
(* soon as an increase precedes a decrease) and the delta of a record is   *)
(* taken against the latest earlier record of the loan that carries the    *)
(* status, missing when there is none.                                     *)
StatusFilterShapesDetection ==
    (pc = "done" /\ selected_ptp_status # "All Status") =>
        IF selected_ptp_status = NoPTP
        THEN target_customers = <<>> /\ summary_df = <<>>
        ELSE /\ \A id \in LoanIds :
                    Reported(id) <=>
                        \E i \in Flagged(id, "DPD_Increased") :
                            \E j \in Flagged(id, "DPD_Decreased") :
                                df_sorted[j].Date > df_sorted[i].Date
             /\ \A j \in 1..Len(df_sorted) :
                    LET prev == PassingBefore(df_sorted[j].DisbursementID, df_sorted[j].Date)
                    IN IF prev = {} THEN df_sorted[j].DPD_Change.na
                       ELSE \E i \in prev :
                                /\ \A m \in prev : loaded_df[m].Date <= loaded_df[i].Date
                                /\ loaded_df[i].PTPStatus = selected_ptp_status
                                /\ df_sorted[j].DPD_Change =
                                       Num(df_sorted[j].NumberOfDaysPastDue
                                               - loaded_df[i].NumberOfDaysPastDue)

(* a loan reported under the status filter "Pending" that also has a       *)
(* record without that status                                              *)
ReportedUnderStatusFilter ==
    /\ pc = "done"
    /\ selected_ptp_status = "Pending"
    /\ Reported(1)
    /\ \E i \in 1..Len(loaded_df) :
           loaded_df[i].DisbursementID = 1 /\ loaded_df[i].PTPStatus # "Pending"

(* the loan the page was asked to show: the one looked up, or the one      *)
(* whose text was chosen in the dropdown                                   *)
ShownLoan(id) ==
    \/ customer_to_show.kind = "id" /\ customer_to_show.val = id
    \/ customer_to_show.kind = "str" /\ customer_to_show.val = Str(id, id_dtype)

(* C24: the timeline on the page is the annotated records of the loan      *)
(* asked for, all of them and no record of another loan, in ascending      *)
(* date order.                                                             *)
TimelineIsTheLoansRecords ==
    (pc = "rendered" /\ "timeline" \in shown) =>
        /\ \E id \in LoanIds :
               /\ ShownLoan(id)
               /\ timeline_display =
                      Masked(df_sorted, [i \in 1..Len(df_sorted) |->
                                            df_sorted[i].DisbursementID = id])
        /\ \A k, l \in 1..Len(timeline_display) :
               k < l => timeline_display[k].Date < timeline_display[l].Date

(* a record with a collection and without a promise: no status, or the    *)
(* status "No PTP", or no amount, or the amount zero                       *)
CollectedUnpromised(r) ==
    /\ r.CollectionAmount > 0
    /\ (r.PTPStatus \in {NoStatus, NoPTP} \/ r.PTPAmount \in {NULL, 0})

(* C25: "Collections Without PTP" holds a filtered record if and only if   *)
(* the record has a collection above zero and no promise status or no      *)
(* promise amount; a record it holds carries no real promise status.  The  *)
(* "only if" half is asked of every file, the "if" half of the files       *)
(* without the optional Collection Date column, whose range comes on top.  *)
CollectionsWithoutPtpAreTheUnpromised ==
    (pc = "dashboard" /\ "collections_without_ptp" \in shown) =>
        \A i \in 1..Len(df) :
            /\ InSeq(df[i], collections_without_ptp) =>
                   CollectedUnpromised(df[i]) /\ df[i].PTPStatus \in {NoStatus, NoPTP}
            /\ (CollectedUnpromised(df[i]) /\ "CollectionDate" \notin DOMAIN df[i]) =>
                   InSeq(df[i], collections_without_ptp)

(* C30: in the PTP date range analysis the customers who gave collection   *)
(* and the customers who did not partition the PTP customers: the two      *)
(* counts add up to Total PTP Customers.                                   *)
CollectionCountsPartitionPtpCustomers ==
    (pc = "dashboard" /\ "ptp_range" \in shown) =>
        customers_with_collection + customers_without_collection = total_ptp_customers

(* the dates of the loan's records that carry the flag, missing dates     *)
(* left out                                                                *)
FlagDates(id, flag) == {df_sorted[i].Date : i \in Flagged(id, flag)} \ {NULL}

Earliest(dates) == CHOOSE d \in dates : \A e \in dates : d <= e

Latest(dates) == CHOOSE d \in dates : \A e \in dates : e <= d

(* the loan has a record with a promise *)
Candidate(id) == \E i \in RowsOfLoan(df, id) : IsPromise(df[i].PTPStatus)

(* C26: a candidate loan qualifies if and only if its earliest Increased   *)
(* date is strictly earlier than its latest Decreased date: the scan of    *)
(* the increase dates with its break decides the same as that one          *)
(* comparison.                                                             *)
QualifiesIffEarliestIncreaseBeforeLatestDecrease ==
    Returned =>
        \A id \in LoanIds :
            Candidate(id) =>
                (Reported(id) <=>
                    /\ FlagDates(id, "DPD_Increased") # {}
                    /\ FlagDates(id, "DPD_Decreased") # {}
                    /\ Earliest(FlagDates(id, "DPD_Increased"))
                           < Latest(FlagDates(id, "DPD_Decreased")))

(* a reported loan whose first decrease comes before its first increase:  *)
(* a later decrease made it qualify                                        *)
LaterDecreaseDecides ==
    /\ Returned
    /\ \E id \in LoanIds :
           /\ Reported(id)
           /\ Earliest(FlagDates(id, "DPD_Decreased"))
                  < Earliest(FlagDates(id, "DPD_Increased"))

(* the DPD of every record is known and not negative *)
NonNegativeDPD == \A i \in 1..Len(df) : df[i].NumberOfDaysPastDue >= 0

(* C27: for inputs with non-negative DPD and one record per loan and date, *)
(* every summary row has at least three records, at least one increase and *)
(* one decrease, no more increases and decreases together than records     *)
(* less one, and Max_DPD >= Current_DPD >= 0.                              *)
SummaryRowBounds ==
    (Returned /\ NonNegativeDPD /\ DistinctDates) =>
        \A k \in 1..Len(summary_df) :
            /\ summary_df[k].Total_Records >= 3
            /\ summary_df[k].DPD_Increases >= 1
            /\ summary_df[k].DPD_Decreases >= 1
            /\ summary_df[k].DPD_Increases + summary_df[k].DPD_Decreases
                   <= summary_df[k].Total_Records - 1
            /\ summary_df[k].Max_DPD >= summary_df[k].Current_DPD
            /\ summary_df[k].Current_DPD >= 0

(* a summary row that meets two of the bounds with equality: three records, *)
(* and as many changes as records less one                                 *)
SummaryRowAtTheBounds ==
    /\ Returned
    /\ NonNegativeDPD
    /\ DistinctDates
    /\ \E k \in 1..Len(summary_df) :
           /\ summary_df[k].Total_Records = 3
           /\ summary_df[k].DPD_Increases + summary_df[k].DPD_Decreases = 2

(* C28: the pairing compares dates strictly and not positions: a loan none *)
(* of whose decreases has a date strictly later than one of its increases  *)
(* does not qualify, also when a decrease follows an increase of the same  *)
(* date in the timeline.                                                   *)
SameDateDecreaseDoesNotPair ==
    Returned =>
        \A id \in LoanIds :
            (\A i \in Flagged(id, "DPD_Increased") :
                 \A j \in Flagged(id, "DPD_Decreased") :
                     df_sorted[j].Date <= df_sorted[i].Date)
                => ~Reported(id)

(* a candidate loan whose decrease follows its increase in the timeline on *)
(* the same date, and that is not reported                                 *)
DecreaseFollowsIncreaseOnSameDate ==
    /\ Returned
    /\ \E id \in LoanIds :
           /\ Candidate(id)
           /\ ~Reported(id)
           /\ \E i \in Flagged(id, "DPD_Increased") :
                  \E j \in Flagged(id, "DPD_Decreased") :
                      i < j /\ df_sorted[j].Date = df_sorted[i].Date

====
